---- MODULE Spec2Model ----
(***************************************************************************)
(* Model of src/app.py: the Streamlit image analyzer.                      *)
(*                                                                         *)
(* Every widget interaction re-runs main() from the top; an action below   *)
(* is one such re-run.  The re-run triggered by the "Analyze" button is    *)
(* followed through analyze_image_and_text step by step (pc), because the  *)
(* order of its log lines and of the network request matters.  While pc is *)
(* not "idle" the script is blocked inside the call and no widget can be   *)
(* used.                                                                   *)
(*                                                                         *)
(* Optional values (Python None) are sequences of length 0 or 1.           *)
(* Names are sequences of characters, so that emptiness and whitespace     *)
(* are computed and not assumed.                                           *)
(***************************************************************************)
EXTENDS Integers, Sequences, FiniteSets, TLC

VARIABLES user_name, user_text, uploaded_file, pc, call, image_base64,
          request, response, ret, banner, shown, log, mark, events

vars == <<user_name, user_text, uploaded_file, pc, call, image_base64,
          request, response, ret, banner, shown, log, mark, events>>

\* ------------------------------------------------------------------ bounds
MaxEvents == 4

\* ------------------------------------------------------------ option type
None == <<>>
Some(x) == <<x>>
Get(o) == o[1]

\* ------------------------------------------------------------ input sets
Bob == <<"B", "o", "b">>
Alice == <<"A">>
Anonymous == <<"a", "n", "o", "n", "y", "m", "o", "u", "s">>
Names == {<<>>, <<" ">>, <<" ", " ">>, Bob, Alice}

DefaultText == "Describe the image"
Texts == {"", DefaultText, "What is this?"}

Modes == {"RGB", "RGBA", "LA", "PA", "P"}
\* raw modes Pillow's JPEG writer accepts; every other mode makes save() raise
JpegModes == {"1", "L", "RGB", "RGBX", "CMYK", "YCbCr"}
Files == {[openable |-> FALSE, mode |-> "RGB"]}
           \cup {[openable |-> TRUE, mode |-> m] : m \in Modes}

Apple == "A red apple on a table."
Other == "A green pear."
Causes == {"auth", "rate_limit", "malformed", "connect", "timeout"}
ChoiceLists == {<<>>, <<None>>, <<Some("")>>, <<Some(Apple)>>,
                <<Some(Apple), Some(Other)>>}
Responses == {[err |-> c, choices |-> <<>>] : c \in Causes}
               \cup {[err |-> "", choices |-> cs] : cs \in ChoiceLists}

\* -------------------------------------------------------------- helpers
Last(s) == s[Len(s)]

\* log_activity: one line "User '<user_name>' - <activity>: <status_str>"
log_activity(name, activity, status) ==
    [user_name |-> name, activity |-> activity,
     status_str |-> IF status THEN "success" ELSE "failed"]

\* `if user_name:` on the welcome screen
\* variant: the name is stored without the truthiness test
NameAccepted_any(n) == TRUE
NameAccepted(n) == Len(n) > 0

\* `if not user_text: user_text = "Describe the image"`
\* variant: no default is substituted
EffectiveText_nodefault(t) == t
EffectiveText(t) == IF t = "" THEN DefaultText ELSE t

\* `if image.mode == 'RGBA': image = image.convert('RGB')`
Flatten(img) == IF img.mode = "RGBA" THEN [img EXCEPT !.mode = "RGB"] ELSE img

\* encode_image_to_base64: the data URI, or None when save() raises
encode_image_to_base64(img) ==
    LET flat == Flatten(img)
    IN  IF flat.mode \in JpegModes
        THEN Some([header |-> "data:image/jpeg;base64,", payload |-> flat.mode])
        ELSE None

\* `if image_base64 is None: raise`
\* variant: the None check is missing
EncodeFailed_never(enc) == FALSE
EncodeFailed(enc) == enc = None

\* log line written between encoding and the request
\* variant: nothing is logged before the request
PreRequestLog_none(name) == <<>>
PreRequestLog(name) == <<log_activity(name, "API call", TRUE)>>

\* client.chat.completions.create(...) or choices[0] raises
Raises(r) == r.err # "" \/ Len(r.choices) = 0

\* completion.choices[0].message.content
\* variant: the last choice is read instead of the first
FirstChoice_last(r) == r.choices[Len(r.choices)]
FirstChoice(r) == r.choices[1]

\* `if response:` in main
Truthy(o) == o # None /\ Get(o) # ""

\* the part of main() that handles the uploaded file, without the button:
\* Image.open / st.image, then "Image upload", or the except branch
FileLog(name, f) ==
    IF f = None THEN <<>>
    ELSE IF Get(f).openable THEN <<log_activity(name, "Image upload", TRUE)>>
    ELSE <<log_activity(name, "Image processing", FALSE)>>

FileBanner(f) ==
    IF f = None THEN "info"
    ELSE IF Get(f).openable THEN "none"
    ELSE "processing_error"

\* ------------------------------------------------------------------ Init
Init ==
    /\ user_name = None
    /\ user_text = ""
    /\ uploaded_file = None
    /\ pc = "idle"
    /\ call = None
    /\ image_base64 = None
    /\ request = None
    /\ response = None
    /\ ret = None
    /\ banner = "none"
    /\ shown = None
    /\ log = <<>>
    /\ mark = 0
    /\ events = <<>>

CanAct == pc = "idle" /\ Len(events) < MaxEvents

ClearFrame ==
    /\ call' = None
    /\ image_base64' = None
    /\ request' = None
    /\ response' = None
    /\ ret' = None

\* ----------------------------------------------------------- welcome screen
\* "Enter" pressed with n in the name field
SubmitName(n) ==
    /\ CanAct
    /\ user_name = None
    /\ events' = Append(events, [kind |-> "submit", name |-> n])
    /\ IF NameAccepted(n)
       THEN /\ user_name' = Some(n)
            /\ log' = Append(log, log_activity(n, "Login", TRUE))
            \* st.rerun(): main view, nothing uploaded yet
            /\ banner' = FileBanner(uploaded_file)
       ELSE /\ user_name' = user_name
            /\ log' = Append(log, log_activity(Anonymous, "Login", FALSE))
            /\ banner' = "warning"
    /\ shown' = None
    /\ mark' = Len(log')
    /\ ClearFrame
    /\ UNCHANGED <<user_text, uploaded_file, pc>>

\* ---------------------------------------------------------------- main view
\* the prompt field is edited
SetText(t) ==
    /\ CanAct
    /\ user_name # None
    /\ t # user_text
    /\ events' = Append(events, [kind |-> "text", text |-> t])
    /\ user_text' = t
    /\ log' = log \o FileLog(Get(user_name), uploaded_file)
    /\ banner' = FileBanner(uploaded_file)
    /\ shown' = None
    /\ mark' = Len(log')
    /\ ClearFrame
    /\ UNCHANGED <<user_name, uploaded_file, pc>>

\* a file is chosen in the uploader (f = None: the file is removed)
Upload(f) ==
    /\ CanAct
    /\ user_name # None
    /\ f # uploaded_file
    /\ events' = Append(events, [kind |-> "upload", file |-> f])
    /\ uploaded_file' = f
    /\ log' = log \o FileLog(Get(user_name), f)
    /\ banner' = FileBanner(f)
    /\ shown' = None
    /\ mark' = Len(log')
    /\ ClearFrame
    /\ UNCHANGED <<user_name, user_text, pc>>

\* "Analyze" pressed: the button exists only if the last run opened the file
ClickAnalyze ==
    /\ CanAct
    /\ user_name # None
    /\ uploaded_file # None
    /\ Get(uploaded_file).openable
    /\ events' = Append(events, [kind |-> "analyze"])
    /\ log' = log \o FileLog(Get(user_name), uploaded_file)
    /\ mark' = Len(log')
    /\ call' = Some([user_name |-> Get(user_name),
                     user_text |-> EffectiveText(user_text),
                     image |-> Get(uploaded_file)])
    /\ image_base64' = None
    /\ request' = None
    /\ response' = None
    /\ ret' = None
    /\ banner' = "spinner"
    /\ shown' = None
    /\ pc' = "encode"
    /\ UNCHANGED <<user_name, user_text, uploaded_file>>

\* analyze_image_and_text, lines 45-50
Encode ==
    /\ pc = "encode"
    /\ LET enc == encode_image_to_base64(Get(call).image)
       IN  /\ image_base64' = enc
           /\ IF EncodeFailed(enc)
              THEN /\ log' = Append(log, log_activity(Get(call).user_name,
                                                      "Image analysis", FALSE))
                   /\ pc' = "render"
              ELSE /\ log' = log \o PreRequestLog(Get(call).user_name)
                   /\ pc' = "request"
    /\ ret' = None
    /\ UNCHANGED <<user_name, user_text, uploaded_file, call, request,
                   response, banner, shown, mark, events>>

\* lines 52-76: the request leaves
IssueRequest ==
    /\ pc = "request"
    /\ request' = Some([text |-> Get(call).user_text, url |-> image_base64])
    /\ pc' = "inflight"
    /\ UNCHANGED <<user_name, user_text, uploaded_file, call, image_base64,
                   response, ret, banner, shown, log, mark, events>>

\* lines 76-83: the call returns r or raises
\* variant: a failed call also drops the session
Respond_logout(r) ==
    /\ pc = "inflight"
    /\ response' = Some(r)
    /\ IF Raises(r)
       THEN /\ ret' = None
            /\ user_name' = None
            /\ log' = Append(log, log_activity(Get(call).user_name,
                                               "Image analysis", FALSE))
       ELSE /\ ret' = FirstChoice(r)
            /\ user_name' = user_name
            /\ log' = Append(log, log_activity(Get(call).user_name,
                                               "Image analysis", TRUE))
    /\ pc' = "render"
    /\ UNCHANGED <<user_text, uploaded_file, call, image_base64,
                   request, banner, shown, mark, events>>

Respond(r) ==
    /\ pc = "inflight"
    /\ response' = Some(r)
    /\ IF Raises(r)
       THEN /\ ret' = None
            /\ log' = Append(log, log_activity(Get(call).user_name,
                                               "Image analysis", FALSE))
       ELSE /\ ret' = FirstChoice(r)
            /\ log' = Append(log, log_activity(Get(call).user_name,
                                               "Image analysis", TRUE))
    /\ pc' = "render"
    /\ UNCHANGED <<user_name, user_text, uploaded_file, call, image_base64,
                   request, banner, shown, mark, events>>

\* main, lines 147-151, then the Logout button (not pressed in this run)
Render ==
    /\ pc = "render"
    /\ IF Truthy(ret)
       THEN banner' = "success" /\ shown' = ret
       ELSE banner' = "error" /\ shown' = None
    /\ pc' = "idle"
    /\ UNCHANGED <<user_name, user_text, uploaded_file, call, image_base64,
                   request, response, ret, log, mark, events>>

\* sidebar "Logout" pressed: the file part of main runs first
\* variant: the name is not cleared
Logout_keep ==
    /\ CanAct
    /\ user_name # None
    /\ events' = Append(events, [kind |-> "logout"])
    /\ log' = Append(log \o FileLog(Get(user_name), uploaded_file),
                     log_activity(Get(user_name), "Logout", TRUE))
    /\ banner' = "none"
    /\ shown' = None
    /\ mark' = Len(log')
    /\ ClearFrame
    /\ UNCHANGED <<user_name, user_text, uploaded_file, pc>>

Logout ==
    /\ CanAct
    /\ user_name # None
    /\ events' = Append(events, [kind |-> "logout"])
    /\ log' = Append(log \o FileLog(Get(user_name), uploaded_file),
                     log_activity(Get(user_name), "Logout", TRUE))
    /\ user_name' = None
    \* st.rerun(): welcome screen; the main view's widgets are gone
    /\ user_text' = ""
    /\ uploaded_file' = None
    /\ banner' = "none"
    /\ shown' = None
    /\ mark' = Len(log')
    /\ ClearFrame
    /\ UNCHANGED pc

Next ==
    \/ \E n \in Names : SubmitName(n)
    \/ \E t \in Texts : SetText(t)
    \/ \E f \in {None} \cup {Some(x) : x \in Files} : Upload(f)
    \/ ClickAnalyze
    \/ Encode
    \/ IssueRequest
    \/ \E r \in Responses : Respond(r)
    \/ Render
    \/ Logout

Spec == Init /\ [][Next]_vars

\* the call is synchronous and the client library bounds it by its own
\* timeout, so a started analysis runs on to its end
FairSpec ==
    /\ Spec
    /\ WF_vars(Encode)
    /\ WF_vars(IssueRequest)
    /\ WF_vars(\E r \in Responses : Respond(r))
    /\ WF_vars(Render)

TypeOK ==
    /\ pc \in {"idle", "encode", "request", "inflight", "render"}
    /\ Len(events) <= MaxEvents
    /\ user_text \in Texts

\* ------------------------------------------------------------- properties
\* the log lines written since analyze_image_and_text was entered
SinceCall == SubSeq(log, mark + 1, Len(log))

InAnalyzer == pc \in {"encode", "request", "inflight"}

IsBlank(n) == \A i \in 1..Len(n) : n[i] = " "

HasAlpha(mode) == mode \in {"RGBA", "LA", "PA"}

LastEventIs(k) == Len(events) > 0 /\ Last(events).kind = k

\* C1: the analyzer runs only while Session.user_name is present and
\* non-empty, and the actor it was given is the current user_name.
C1_AnalyzerGated ==
    InAnalyzer =>
        /\ user_name # None
        /\ Len(Get(user_name)) > 0
        /\ call # None
        /\ Get(call).user_name = Get(user_name)

C1_Witness == pc = "inflight" /\ user_name = Some(Bob)

\* C2: a submitted name that is empty or only whitespace leaves user_name
\* absent and the log ends with a failed "Login" line for "anonymous".
C2_BlankNameRejected ==
    (LastEventIs("submit") /\ IsBlank(Last(events).name)) =>
        /\ user_name = None
        /\ Len(log) > 0
        /\ Last(log) = log_activity(Anonymous, "Login", FALSE)

C4_NetworkFailure ==
    /\ pc = "request" =>
           SinceCall = <<log_activity(Get(call).user_name, "API call", TRUE)>>
    /\ request # None =>
           /\ Len(log) > mark
           /\ log[mark + 1] = log_activity(Get(call).user_name,
                                           "API call", TRUE)
    /\ (pc = "render" /\ response # None /\ Raises(Get(response))) =>
           /\ ret = None
           /\ SinceCall = <<log_activity(Get(call).user_name,
                                         "API call", TRUE),
                            log_activity(Get(call).user_name,
                                         "Image analysis", FALSE)>>

C4_Witness ==
    /\ pc = "render"
    /\ response # None
    /\ Get(response).err = "timeout"
    /\ image_base64 # None

\* the end-to-end run: login, one upload of a readable image, prompt left
\* empty, one analyze, and the API answered with a non-empty first choice
EndToEnd ==
    /\ pc = "idle"
    /\ Len(events) = 3
    /\ events[1].kind = "submit"
    /\ events[2].kind = "upload"
    /\ events[3].kind = "analyze"
    /\ user_name # None
    /\ user_text = ""
    /\ response # None
    /\ ~Raises(Get(response))
    /\ Get(response).choices[1] # None
    /\ Get(Get(response).choices[1]) # ""

\* C5 as stated: in the end-to-end run the displayed result is the first
\* choice's text and the log is exactly Login, API call, Image analysis.
C5_ThreeEntries ==
    EndToEnd =>
        /\ banner = "success"
        /\ shown = Get(response).choices[1]
        /\ log = <<log_activity(Get(user_name), "Login", TRUE),
                   log_activity(Get(user_name), "API call", TRUE),
                   log_activity(Get(user_name), "Image analysis", TRUE)>>

\* C5 amended: in the end-to-end run the displayed result is the first
\* choice's text and the log is exactly Login, Image upload (the run after
\* the upload), Image upload (the run of the Analyze click), API call,
\* Image analysis, all successful.
C5_FiveEntries ==
    EndToEnd =>
        /\ banner = "success"
        /\ shown = Get(response).choices[1]
        /\ log = <<log_activity(Get(user_name), "Login", TRUE),
                   log_activity(Get(user_name), "Image upload", TRUE),
                   log_activity(Get(user_name), "Image upload", TRUE),
                   log_activity(Get(user_name), "API call", TRUE),
                   log_activity(Get(user_name), "Image analysis", TRUE)>>

C5_Witness ==
    /\ EndToEnd
    /\ user_name = Some(Bob)
    /\ Len(Get(response).choices) = 2
    /\ shown = Some(Apple)

\* C6: a logout clears user_name, its last log line is a successful
\* "Logout" for the name that was present, and the gate is as at start.
C6_Logout ==
    [][(events' # events /\ Last(events').kind = "logout") =>
          /\ user_name # None
          /\ user_name' = None
          /\ Len(log') > Len(log)
          /\ Last(log') = log_activity(Get(user_name), "Logout", TRUE)
          /\ pc' = "idle"
          /\ user_text' = ""
          /\ uploaded_file' = None
          /\ call' = None]_vars

C6_Witness ==
    /\ LastEventIs("logout")
    /\ user_name = None
    /\ Len(log) = 4
    /\ log[3].activity = "Image upload"

C8_AlphaNeverFails ==
    (pc = "render" /\ HasAlpha(Get(call).image.mode)) =>
        /\ image_base64 # None
        /\ Get(image_base64).header = "data:image/jpeg;base64,"
        /\ ~HasAlpha(Get(image_base64).payload)

\* C9: a started analysis ends, back at the main view with user_name
\* unchanged, whatever the outcome; user_name is untouched on the way.
C9_AnalysisEnds ==
    /\ (pc # "idle") ~>
           (pc = "idle" /\ user_name # None /\ call # None
              /\ Get(user_name) = Get(call).user_name)
    /\ [][pc # "idle" => user_name' = user_name]_vars

C9_Witness ==
    /\ pc = "idle"
    /\ banner = "error"
    /\ user_name # None
    /\ response # None
    /\ Raises(Get(response))

\* C10: what is shown agrees with what was logged: the success text is
\* shown iff the invocation's last line is "Image analysis" success, the
\* error banner iff it is "Image analysis" failure.
C10_DisplayMatchesLog ==
    (pc = "idle" /\ banner \in {"success", "error"}) =>
        /\ Last(log).activity = "Image analysis"
        /\ banner = "success" <=> Last(log).status_str = "success"
        /\ banner = "error" <=> Last(log).status_str = "failed"
====
